---- MODULE Spec2Model ----
(***************************************************************************)
(* DexScreenerBot (src/dexscreener_bot.py): the polling loop `run`, the    *)
(* per-token pipeline `analyze_tokens`, the two verification adapters, the *)
(* classifier and the two append-only tables.                              *)
(*                                                                         *)
(* Python values are tagged records: a missing dict key is Absent, None is *)
(* PyNone, strings are sequences of one-character strings (so that         *)
(* str.upper / str.lower are computed, not assumed), numbers are integers. *)
(***************************************************************************)
EXTENDS Integers, Sequences, FiniteSets, TLC

VARIABLES
    config,         \* self.config, loaded once by __init__
    pc,             \* position of run / analyze_tokens
    cycle,          \* number of completed polling cycles
    data,           \* the value fetch_data returned in this cycle
    tokens,         \* the batch analyze_tokens iterates over
    i,              \* index of the token under examination (1-based)
    token_data,     \* rows of table token_data, in insertion order
    coin_events,    \* rows of table coin_events, in insertion order
    notifier_calls, \* messages passed to send_telegram_notification
    posted,         \* messages actually POSTed to the Telegram API
    history,        \* order of observable effects: skip log lines, inserts, notifier calls
    error,          \* the uncaught exception that ended the process, if any
    called,         \* the function whose result is held in ret
    arg,            \* the token passed to that call
    resp,           \* the HTTP outcome that call observed
    ret,            \* the value that call returned
    issued,         \* the HTTP requests that call issued
    events          \* the list classify_coin returned last

vars == <<config, pc, cycle, data, tokens, i, token_data, coin_events,
          notifier_calls, posted, history, error, called, arg, resp, ret,
          issued, events>>

\* Number of polling cycles explored.
MaxCycles == 2

-----------------------------------------------------------------------------
(* Python values *)

Absent == [t |-> "absent"]
PyNone == [t |-> "null"]
PyStr(s) == [t |-> "str", s |-> s]
PyNum(n) == [t |-> "num", n |-> n]
PyBool(b) == [t |-> "bool", b |-> b]

\* bool(value): the truth value Python's `if`, `not` and `and` use.
Truthy(v) ==
    CASE v.t = "str"  -> v.s # <<>>
      [] v.t = "num"  -> v.n # 0
      [] v.t = "bool" -> v.b
      [] v.t = "list" -> v.items # <<>>
      [] v.t = "dict" -> v.tokens.t # "absent" \/ v.other
      [] OTHER        -> FALSE

\* dict.get(key): None when the key is missing.
Get(d, key) == IF d[key].t = "absent" THEN PyNone ELSE d[key]

\* dict.get(key, default)
GetDefault(d, key, default) == IF d[key].t = "absent" THEN default ELSE d[key]

LowerChars == <<"a","b","c","d","e","f","g","h","i","j","k","l","m",
                "n","o","p","q","r","s","t","u","v","w","x","y","z">>
UpperChars == <<"A","B","C","D","E","F","G","H","I","J","K","L","M",
                "N","O","P","Q","R","S","T","U","V","W","X","Y","Z">>
DigitChars == <<"0","1","2","3","4","5","6","7","8","9">>

IndexOf(seq, c) == CHOOSE k \in 1..Len(seq) : seq[k] = c
Occurs(seq, c) == \E k \in 1..Len(seq) : seq[k] = c

\* str.upper() and str.lower(), character by character.
str_upper(s) ==
    [k \in 1..Len(s) |->
        IF Occurs(LowerChars, s[k]) THEN UpperChars[IndexOf(LowerChars, s[k])] ELSE s[k]]
str_lower(s) ==
    [k \in 1..Len(s) |->
        IF Occurs(UpperChars, s[k]) THEN LowerChars[IndexOf(UpperChars, s[k])] ELSE s[k]]

\* float(str) on decimal integer literals with an optional sign; any other
\* text raises ValueError.
IsNumeral(s) ==
    LET body == IF s # <<>> /\ s[1] \in {"-", "+"} THEN Tail(s) ELSE s
    IN  body # <<>> /\ \A k \in 1..Len(body) : Occurs(DigitChars, body[k])

RECURSIVE digits_value(_)
digits_value(s) ==
    IF s = <<>> THEN 0
    ELSE 10 * digits_value(SubSeq(s, 1, Len(s) - 1)) + (IndexOf(DigitChars, s[Len(s)]) - 1)

numeral_value(s) ==
    IF s[1] = "-" THEN 0 - digits_value(Tail(s))
    ELSE IF s[1] = "+" THEN digits_value(Tail(s))
    ELSE digits_value(s)

\* _safe_float: float(value), None on TypeError / ValueError.
safe_float(value) ==
    CASE value.t = "num"  -> value
      [] value.t = "bool" -> PyNum(IF value.b THEN 1 ELSE 0)
      [] value.t = "str" /\ IsNumeral(value.s) -> PyNum(numeral_value(value.s))
      [] OTHER -> PyNone

-----------------------------------------------------------------------------
(* Configuration *)

DefaultRugThreshold == -80
DefaultPumpThreshold == 100
DefaultTier1Liquidity == 1000000

S_pocket == <<"p","u">>
S_rugcheck == <<"r","c">>

\* load_config when the file is missing.
DefaultConfig ==
    [ filters |-> [ rug_threshold |-> DefaultRugThreshold,
                    pump_threshold |-> DefaultPumpThreshold,
                    tier1_liquidity |-> DefaultTier1Liquidity ],
      coin_blacklist |-> <<>>,
      dev_blacklist |-> <<>>,
      telegram |-> [ telegram_token |-> <<>>, telegram_chat_id |-> <<>> ],
      api_endpoints |-> [ pocket_universe |-> S_pocket, rugcheck |-> S_rugcheck ] ]

\* load_config when config.json exists: a file that keeps the default
\* thresholds, names blacklists and Telegram credentials and leaves both
\* verification endpoints empty (fallback mode).
FileConfig ==
    [ filters |-> [ rug_threshold |-> DefaultRugThreshold,
                    pump_threshold |-> DefaultPumpThreshold,
                    tier1_liquidity |-> DefaultTier1Liquidity ],
      coin_blacklist |-> << <<"s","c","a","m">>, <<"0","x","b","a","d">> >>,
      dev_blacklist |-> << <<"0","x","D","E","V">> >>,
      telegram |-> [ telegram_token |-> <<"t","k">>, telegram_chat_id |-> <<"4","2">> ],
      api_endpoints |-> [ pocket_universe |-> <<>>, rugcheck |-> <<>> ] ]

Configs == {DefaultConfig, FileConfig}

-----------------------------------------------------------------------------
(* HTTP outcomes seen by the verification adapters *)

NoResponse == [t |-> "none"]         \* no request was made
HttpError == [t |-> "error"]         \* connection error, timeout or raise_for_status
Malformed == [t |-> "malformed"]     \* body is not JSON, or is JSON but not an object
Json(body) == [t |-> "json", body |-> body]

S_Good == <<"G","o","o","d">>

VolumeResponses ==
    { HttpError, Malformed,
      Json([authentic |-> Absent]),
      Json([authentic |-> PyBool(FALSE)]),
      Json([authentic |-> PyBool(TRUE)]) }

RugcheckResponses ==
    { HttpError, Malformed,
      Json([status |-> Absent]),
      Json([status |-> PyStr(S_Good)]),
      Json([status |-> PyStr(<<"g","o","o","d">>)]),
      Json([status |-> PyStr(<<"G","O","O","D">>)]),
      Json([status |-> PyStr(<<"D","a","n","g","e","r">>)]) }

-----------------------------------------------------------------------------
(* Verification adapters *)

\* The GET requests verify_volume issues.
volume_requests(cfg, token) ==
    IF cfg.api_endpoints.pocket_universe = <<>> THEN <<>>
    ELSE << [url |-> cfg.api_endpoints.pocket_universe, param |-> "token",
             value |-> Get(token, "id")] >>

\* verify_volume with a fallback that accepts a volume of zero.
verify_volume_nonnegative(cfg, token, r) ==
    IF cfg.api_endpoints.pocket_universe = <<>>
    THEN LET volume == safe_float(Get(token, "volume"))
         IN  PyBool(volume.t # "null" /\ volume.n >= 0)
    ELSE IF r.t = "json"
         THEN GetDefault(r.body, "authentic", PyBool(FALSE))
         ELSE PyBool(FALSE)

\* verify_volume; r is the outcome of the request, when one is made.
verify_volume(cfg, token, r) ==
    IF cfg.api_endpoints.pocket_universe = <<>>
    THEN LET volume == safe_float(Get(token, "volume"))
         IN  PyBool(volume.t # "null" /\ volume.n > 0)
    ELSE IF r.t = "json"
         THEN GetDefault(r.body, "authentic", PyBool(FALSE))
         ELSE PyBool(FALSE)

\* The GET requests verify_rugcheck issues.
rugcheck_requests(cfg, token) ==
    IF ~Truthy(Get(token, "contract")) \/ cfg.api_endpoints.rugcheck = <<>> THEN <<>>
    ELSE << [url |-> cfg.api_endpoints.rugcheck, param |-> "contract",
             value |-> Get(token, "contract")] >>

\* verify_rugcheck with a status comparison that ignores case.
verify_rugcheck_anycase(cfg, token, r) ==
    IF ~Truthy(Get(token, "contract")) THEN PyBool(FALSE)
    ELSE IF cfg.api_endpoints.rugcheck = <<>> THEN PyBool(TRUE)
    ELSE IF r.t = "json"
         THEN LET status == GetDefault(r.body, "status", PyStr(<<>>))
              IN  PyBool(status.t = "str" /\ str_upper(status.s) = str_upper(S_Good))
         ELSE PyBool(FALSE)

\* verify_rugcheck; r is the outcome of the request, when one is made.
verify_rugcheck(cfg, token, r) ==
    IF ~Truthy(Get(token, "contract")) THEN PyBool(FALSE)
    ELSE IF cfg.api_endpoints.rugcheck = <<>> THEN PyBool(TRUE)
    ELSE IF r.t = "json"
         THEN PyBool(GetDefault(r.body, "status", PyStr(<<>>)) = PyStr(S_Good))
         ELSE PyBool(FALSE)

-----------------------------------------------------------------------------
(* Classifier and store *)

known_cex_tokens ==
    { <<"B","T","C">>, <<"E","T","H">>, <<"B","N","B">>,
      <<"U","S","D","T">>, <<"U","S","D","C">> }

\* A comparison that also holds on the threshold itself.
is_rugged_inclusive(val, threshold) == val.t # "null" /\ val.n <= threshold

\* classify_coin, lines 241, 244, 247: the three threshold tests.
is_rugged(val, threshold) == val.t # "null" /\ val.n < threshold
is_pumped(val, threshold) == val.t # "null" /\ val.n > threshold
is_tier1(val, threshold) == val.t # "null" /\ val.n > threshold

\* classify_coin, lines 227-253: the list `events` of (event_type, details).
classify_coin(cfg, token) ==
    LET symbol == Get(token, "symbol")
        rug_threshold == cfg.filters.rug_threshold
        pump_threshold == cfg.filters.pump_threshold
        tier1_liquidity == cfg.filters.tier1_liquidity
        price_change_val == safe_float(Get(token, "price_change"))
        liquidity_val == safe_float(Get(token, "liquidity"))
        rugged ==
            IF is_rugged(price_change_val, rug_threshold)
            THEN << <<"rugged", [fmt |-> "Price dropped by {}% (threshold: {}%)",
                                 value |-> price_change_val.n,
                                 threshold |-> rug_threshold]>> >>
            ELSE <<>>
        pumped ==
            IF is_pumped(price_change_val, pump_threshold)
            THEN << <<"pumped", [fmt |-> "Price increased by {}% (threshold: {}%)",
                                 value |-> price_change_val.n,
                                 threshold |-> pump_threshold]>> >>
            ELSE <<>>
        tier1 ==
            IF is_tier1(liquidity_val, tier1_liquidity)
            THEN << <<"tier-1", [fmt |-> "High liquidity of {} (threshold: {})",
                                 value |-> liquidity_val.n,
                                 threshold |-> tier1_liquidity]>> >>
            ELSE <<>>
        cex ==
            IF Truthy(symbol) /\ str_upper(symbol.s) \in known_cex_tokens
            THEN << <<"listed_on_cex", [fmt |-> "Token {} is typically listed on major CEXs",
                                        symbol |-> symbol.s]>> >>
            ELSE <<>>
    IN  rugged \o pumped \o tier1 \o cex

\* record_event: one INSERT into coin_events.
record_event(rows, token_id, event_type, details) ==
    Append(rows, [token_id |-> token_id, event_type |-> event_type, details |-> details])

\* classify_coin, lines 255-257: record_event for each event, in list order.
RECURSIVE record_events(_, _, _)
record_events(rows, token_id, evs) ==
    IF evs = <<>> THEN rows
    ELSE record_events(record_event(rows, token_id, Head(evs)[1], Head(evs)[2]),
                       token_id, Tail(evs))

\* The row save_token_data inserts.
snapshot_row(token) ==
    [ token_id |-> Get(token, "id"),
      symbol |-> Get(token, "symbol"),
      developer |-> Get(token, "developer"),
      contract |-> Get(token, "contract"),
      price |-> safe_float(Get(token, "price")),
      liquidity |-> safe_float(Get(token, "liquidity")),
      volume |-> safe_float(Get(token, "volume")),
      price_change |-> safe_float(Get(token, "price_change")),
      bundled |-> IF Truthy(GetDefault(token, "bundled", PyBool(FALSE))) THEN 1 ELSE 0 ]

\* save_token_data that keeps one row per token_id.
save_token_data_dedup(rows, token) ==
    IF \E k \in 1..Len(rows) : rows[k].token_id = Get(token, "id")
    THEN rows
    ELSE Append(rows, snapshot_row(token))

\* save_token_data: one INSERT into token_data.
save_token_data(rows, token) == Append(rows, snapshot_row(token))

\* A trade-signal test that also lets rugged through.
IsTradeSignal_rugged(e) == e[1] \in {"rugged", "pumped", "tier-1"}

\* analyze_tokens line 310.
IsTradeSignal(e) == e[1] \in {"pumped", "tier-1"}
trade_signals(evs) == SelectSeq(evs, IsTradeSignal)

\* analyze_tokens lines 312-313: the header names the symbol, then one
\* "etype: detail" line per trade signal.
trade_message(symbol, signals) == [symbol |-> symbol, lines |-> signals]

\* send_telegram_notification: the POST is made only with both credentials.
send_telegram_notification(cfg, posts, message) ==
    IF cfg.telegram.telegram_token = <<>> \/ cfg.telegram.telegram_chat_id = <<>>
    THEN posts
    ELSE Append(posts, [chat_id |-> cfg.telegram.telegram_chat_id, text |-> message])

-----------------------------------------------------------------------------
(* analyze_tokens: the filters of one loop iteration *)

\* line 276: token.get("symbol", "").upper(); raises unless the value is a str.
SymbolRaises(token) == GetDefault(token, "symbol", PyStr(<<>>)).t # "str"
effective_symbol(token) == str_upper(GetDefault(token, "symbol", PyStr(<<>>)).s)

coin_blacklist_set(cfg) ==
    { str_upper(cfg.coin_blacklist[k]) : k \in 1..Len(cfg.coin_blacklist) }
dev_blacklist_set(cfg) ==
    { str_lower(cfg.dev_blacklist[k]) : k \in 1..Len(cfg.dev_blacklist) }

\* The filters without the bundled-supply test.
filter_outcome_unbundled(cfg, token) ==
    LET developer == GetDefault(token, "developer", PyStr(<<>>))
    IN  IF SymbolRaises(token) THEN "raise"
        ELSE IF effective_symbol(token) \in coin_blacklist_set(cfg) THEN "coin_blacklist"
        ELSE IF Truthy(developer) /\ developer.t # "str" THEN "raise"
        ELSE IF Truthy(developer) /\ str_lower(developer.s) \in dev_blacklist_set(cfg)
             THEN "dev_blacklist"
        ELSE "pass"

\* lines 276-293: "raise", or the reason of the `continue`, or "pass".
filter_outcome(cfg, token) ==
    LET developer == GetDefault(token, "developer", PyStr(<<>>))
        bundled == GetDefault(token, "bundled", PyBool(FALSE))
    IN  IF SymbolRaises(token) THEN "raise"
        ELSE IF effective_symbol(token) \in coin_blacklist_set(cfg) THEN "coin_blacklist"
        ELSE IF Truthy(developer) /\ developer.t # "str" THEN "raise"
        ELSE IF Truthy(developer) /\ str_lower(developer.s) \in dev_blacklist_set(cfg)
             THEN "dev_blacklist"
        ELSE IF Truthy(bundled) THEN "bundled"
        ELSE "pass"

-----------------------------------------------------------------------------
(* Token records the data source may return *)

\* The end-to-end record of the specification: FOO, -90 %, liquidity 500.
tFoo ==
    [ id |-> PyStr(<<"0","x","1">>), symbol |-> PyStr(<<"F","O","O">>),
      developer |-> PyStr(<<"0","x","d","0">>), contract |-> PyStr(<<"0","x","a","b","c">>),
      price |-> PyNum(1), liquidity |-> PyNum(500), volume |-> PyNum(10),
      price_change |-> PyNum(-90), bundled |-> PyBool(FALSE) ]
\* pumped and tier-1
tPump ==
    [tFoo EXCEPT !.id = PyStr(<<"0","x","2">>), !.symbol = PyStr(<<"M","o","o","n">>),
                 !.price_change = PyNum(150), !.liquidity = PyNum(2000000)]
\* rugged, tier-1 and listed_on_cex
tEth ==
    [tFoo EXCEPT !.id = PyStr(<<"0","x","3">>), !.symbol = PyStr(<<"e","t","h">>),
                 !.liquidity = PyStr(<<"2","0","0","0","0","0","0">>), !.developer = PyNone]
\* no identifier, both metrics exactly on their thresholds: no event
tQuiet ==
    [tFoo EXCEPT !.id = Absent, !.symbol = PyStr(<<"b","a","r">>),
                 !.price_change = PyNum(100), !.liquidity = PyNum(1000000),
                 !.bundled = Absent, !.developer = Absent]
tScam == [tPump EXCEPT !.id = PyStr(<<"0","x","5">>), !.symbol = PyStr(<<"S","c","a","m">>)]
tBadDev == [tPump EXCEPT !.id = PyStr(<<"0","x","6">>), !.developer = PyStr(<<"0","X","d","e","v">>)]
tBundled == [tPump EXCEPT !.id = PyStr(<<"0","x","7">>), !.bundled = PyBool(TRUE)]
tZeroVol == [tPump EXCEPT !.id = PyStr(<<"0","x","8">>), !.volume = PyNum(0)]
tNegVol == [tPump EXCEPT !.id = PyStr(<<"0","x","9">>), !.volume = PyStr(<<"-","5">>)]
tNoVol == [tPump EXCEPT !.id = PyStr(<<"0","x","a">>), !.volume = Absent]
tNoContract == [tPump EXCEPT !.id = PyStr(<<"0","x","b">>), !.contract = Absent]
\* no symbol; the identifier is the token's address
tNoSym == [tPump EXCEPT !.id = PyStr(<<"0","x","B","a","d">>), !.symbol = Absent]
\* "symbol": null
tNullSym == [tPump EXCEPT !.id = PyStr(<<"0","x","c">>), !.symbol = PyNone]
\* "developer": 7
tNumDev == [tPump EXCEPT !.id = PyStr(<<"0","x","d">>), !.developer = PyNum(7)]

Batches ==
    { <<>>,
      <<tFoo, tPump>>,
      <<tEth>>,
      <<tQuiet>>,
      <<tScam, tBundled>>,
      <<tBadDev>>,
      <<tZeroVol, tNoContract>>,
      <<tNegVol>>,
      <<tNoVol>>,
      <<tNoSym>>,
      <<tPump, tNullSym, tFoo>>,
      <<tNumDev, tFoo>> }

PyList(items) == [t |-> "list", items |-> items]
PyDict(toks, other) == [t |-> "dict", tokens |-> toks, other |-> other]

\* What fetch_data can return: None after any exception, else response.json().
Feeds ==
    { PyNone }                                                \* fetch failed
    \cup { PyDict(PyList(b), FALSE) : b \in Batches }         \* {"tokens": [...]}
    \cup { PyList(b) : b \in {<<>>, <<tFoo, tPump>>} }        \* [...]
    \cup { PyDict(Absent, TRUE), PyDict(Absent, FALSE) }      \* {"pairs": ...}, {}
    \cup { PyStr(<<"o","k">>) }                               \* "ok"

-----------------------------------------------------------------------------
(* run and analyze_tokens *)

NoError == [type |-> "none"]
NoCall == "none"

Blank ==
    /\ called' = NoCall
    /\ arg' = PyNone
    /\ resp' = NoResponse
    /\ ret' = PyNone
    /\ issued' = <<>>

Init ==
    /\ config \in Configs
    /\ pc = "fetch"
    /\ cycle = 0
    /\ data = PyNone
    /\ tokens = <<>>
    /\ i = 1
    /\ token_data = <<>>
    /\ coin_events = <<>>
    /\ notifier_calls = <<>>
    /\ posted = <<>>
    /\ history = <<>>
    /\ error = NoError
    /\ called = NoCall
    /\ arg = PyNone
    /\ resp = NoResponse
    /\ ret = PyNone
    /\ issued = <<>>
    /\ events = <<>>

\* run, lines 322-326: data = self.fetch_data(); if data: ... else: ...
Fetch ==
    /\ pc = "fetch"
    /\ cycle < MaxCycles
    /\ \E d \in Feeds :
        /\ data' = d
        /\ pc' = IF Truthy(d) THEN "analyze" ELSE "sleep"
    /\ UNCHANGED <<config, cycle, tokens, i, token_data, coin_events, notifier_calls,
                   posted, history, error, called, arg, resp, ret, issued, events>>

\* analyze_tokens, lines 269-273: tokens = data.get("tokens", []).
batch_of(d) == GetDefault(d, "tokens", PyList(<<>>)).items

AnalyzeStart ==
    /\ pc = "analyze"
    /\ IF data.t # "dict"
       THEN /\ pc' = "crashed"
            /\ error' = [type |-> "AttributeError", line |-> 269, scope |-> "batch"]
            /\ UNCHANGED <<tokens, i>>
       ELSE /\ tokens' = batch_of(data)
            /\ i' = 1
            /\ pc' = "loop"
            /\ UNCHANGED error
    /\ UNCHANGED <<config, cycle, data, token_data, coin_events, notifier_calls,
                   posted, history, called, arg, resp, ret, issued, events>>

SkipLine(token, reason) ==
    [kind |-> "skip", cycle |-> cycle, idx |-> i, token |-> token, reason |-> reason]

\* analyze_tokens, lines 275-293: the blacklist and bundled filters of one token.
Filter ==
    /\ pc = "loop"
    /\ i <= Len(tokens)
    /\ LET token == tokens[i]
           outcome == filter_outcome(config, token)
       IN  CASE outcome = "raise" ->
                    /\ pc' = "crashed"
                    /\ error' = [type |-> "AttributeError",
                                 line |-> IF SymbolRaises(token) THEN 276 ELSE 286,
                                 scope |-> "token"]
                    /\ UNCHANGED <<i, history>>
             [] outcome = "pass" ->
                    /\ pc' = "verify_volume"
                    /\ UNCHANGED <<i, history, error>>
             [] OTHER ->
                    /\ history' = Append(history, SkipLine(token, outcome))
                    /\ i' = i + 1
                    /\ UNCHANGED <<pc, error>>
    /\ Blank
    /\ events' = <<>>
    /\ UNCHANGED <<config, cycle, data, tokens, token_data, coin_events,
                   notifier_calls, posted>>

\* analyze_tokens, lines 296-298.
VerifyVolume ==
    /\ pc = "verify_volume"
    /\ LET token == tokens[i]
           reqs == volume_requests(config, token)
       IN  \E r \in (IF reqs = <<>> THEN {NoResponse} ELSE VolumeResponses) :
             LET v == verify_volume(config, token, r)
             IN  /\ called' = "verify_volume"
                 /\ arg' = token
                 /\ resp' = r
                 /\ ret' = v
                 /\ issued' = reqs
                 /\ IF ~Truthy(v)
                    THEN /\ history' = Append(history, SkipLine(token, "volume"))
                         /\ i' = i + 1
                         /\ pc' = "loop"
                    ELSE /\ pc' = "verify_rugcheck"
                         /\ UNCHANGED <<i, history>>
    /\ UNCHANGED <<config, cycle, data, tokens, token_data, coin_events,
                   notifier_calls, posted, error, events>>

\* analyze_tokens, lines 301-303.
VerifyRugcheck ==
    /\ pc = "verify_rugcheck"
    /\ LET token == tokens[i]
           reqs == rugcheck_requests(config, token)
       IN  \E r \in (IF reqs = <<>> THEN {NoResponse} ELSE RugcheckResponses) :
             LET v == verify_rugcheck(config, token, r)
             IN  /\ called' = "verify_rugcheck"
                 /\ arg' = token
                 /\ resp' = r
                 /\ ret' = v
                 /\ issued' = reqs
                 /\ IF ~Truthy(v)
                    THEN /\ history' = Append(history, SkipLine(token, "rugcheck"))
                         /\ i' = i + 1
                         /\ pc' = "loop"
                    ELSE /\ pc' = "accept"
                         /\ UNCHANGED <<i, history>>
    /\ UNCHANGED <<config, cycle, data, tokens, token_data, coin_events,
                   notifier_calls, posted, error, events>>

\* The history entries of one accepted token: its snapshot INSERT (line 306),
\* one INSERT per event (line 307) and the notifier call (lines 310-314).
snapshot_effect(token, c, k) ==
    << [kind |-> "snapshot", cycle |-> c, idx |-> k, token |-> token,
        row |-> snapshot_row(token)] >>
event_effects(cfg, token, c, k) ==
    LET evs == classify_coin(cfg, token)
    IN  [n \in 1..Len(evs) |->
            [kind |-> "event", cycle |-> c, idx |-> k, token |-> token,
             row |-> [token_id |-> Get(token, "id"), event_type |-> evs[n][1],
                      details |-> evs[n][2]]]]
notify_effects(cfg, token, c, k) ==
    LET signals == trade_signals(classify_coin(cfg, token))
    IN  IF signals # <<>>
        THEN << [kind |-> "notify", cycle |-> c, idx |-> k, token |-> token,
                 message |-> trade_message(effective_symbol(token), signals)] >>
        ELSE <<>>

\* Classification before the snapshot is saved.
accept_effects_classify_first(cfg, token, c, k) ==
    event_effects(cfg, token, c, k) \o snapshot_effect(token, c, k)
    \o notify_effects(cfg, token, c, k)

\* The effects of lines 306-314 on one accepted token, in program order.
accept_effects(cfg, token, c, k) ==
    snapshot_effect(token, c, k) \o event_effects(cfg, token, c, k)
    \o notify_effects(cfg, token, c, k)

\* analyze_tokens, lines 306-314: save, classify (which records), notify.
Accept ==
    /\ pc = "accept"
    /\ LET token == tokens[i]
           evs == classify_coin(config, token)
           signals == trade_signals(evs)
           message == trade_message(effective_symbol(token), signals)
       IN  /\ token_data' = save_token_data(token_data, token)
           /\ coin_events' = record_events(coin_events, Get(token, "id"), evs)
           /\ events' = evs
           /\ notifier_calls' = IF signals # <<>> THEN Append(notifier_calls, message)
                                ELSE notifier_calls
           /\ posted' = IF signals # <<>>
                        THEN send_telegram_notification(config, posted, message)
                        ELSE posted
           /\ history' = history \o accept_effects(config, token, cycle, i)
    /\ i' = i + 1
    /\ pc' = "loop"
    /\ Blank
    /\ UNCHANGED <<config, cycle, data, tokens, error>>

\* The for loop of line 275 is exhausted: analyze_tokens returns to run.
EndBatch ==
    /\ pc = "loop"
    /\ i > Len(tokens)
    /\ pc' = "sleep"
    /\ tokens' = <<>>
    /\ i' = 1
    /\ Blank
    /\ events' = <<>>
    /\ UNCHANGED <<config, cycle, data, token_data, coin_events, notifier_calls,
                   posted, history, error>>

\* run, line 327: time.sleep(interval), then the next iteration of while True.
Sleep ==
    /\ pc = "sleep"
    /\ cycle' = cycle + 1
    /\ pc' = "fetch"
    /\ data' = PyNone
    /\ UNCHANGED <<config, tokens, i, token_data, coin_events, notifier_calls,
                   posted, history, error, called, arg, resp, ret, issued, events>>

Next ==
    \/ Fetch
    \/ AnalyzeStart
    \/ Filter
    \/ VerifyVolume
    \/ VerifyRugcheck
    \/ Accept
    \/ EndBatch
    \/ Sleep

Spec == Init /\ [][Next]_vars

-----------------------------------------------------------------------------
(* classify_coin called on its own, over a grid of inputs *)

ClassifyConfigs ==
    { DefaultConfig,
      [DefaultConfig EXCEPT !.filters = [ rug_threshold |-> -50, pump_threshold |-> 50,
                                           tier1_liquidity |-> 500 ]] }

PriceChanges ==
    { Absent, PyNone, PyNum(-90), PyNum(-81), PyNum(-80), PyNum(-50), PyNum(50),
      PyNum(100), PyNum(101), PyStr(<<"1","5","0">>), PyStr(<<"-","9","0">>),
      PyStr(<<"n","a">>) }
Liquidities ==
    { Absent, PyNone, PyNum(500), PyNum(1000000), PyNum(1000001),
      PyStr(<<"2","0","0","0","0","0","0">>), PyStr(<<>>) }
Symbols ==
    { Absent, PyNone, PyStr(<<>>), PyStr(<<"b","t","c">>), PyStr(<<"B","T","C">>),
      PyStr(<<"U","s","d","t">>), PyStr(<<"F","O","O">>), PyStr(<<"b","t","c","x">>) }

ClassifyTokens ==
    { [tFoo EXCEPT !.price_change = p, !.liquidity = l, !.symbol = y] :
        p \in PriceChanges, l \in Liquidities, y \in Symbols }

InitCall ==
    /\ cycle = 0
    /\ data = PyNone
    /\ tokens = <<>>
    /\ i = 1
    /\ token_data = <<>>
    /\ coin_events = <<>>
    /\ notifier_calls = <<>>
    /\ posted = <<>>
    /\ history = <<>>
    /\ error = NoError
    /\ called = NoCall
    /\ resp = NoResponse
    /\ ret = PyNone
    /\ issued = <<>>
    /\ events = <<>>

InitClassify ==
    /\ config \in ClassifyConfigs
    /\ arg \in ClassifyTokens
    /\ pc = "call"
    /\ InitCall

\* classify_coin(token): builds the list, records each event, returns the list.
CallClassify ==
    /\ pc = "call"
    /\ events' = classify_coin(config, arg)
    /\ coin_events' = record_events(coin_events, Get(arg, "id"), classify_coin(config, arg))
    /\ called' = "classify_coin"
    /\ pc' = "returned"
    /\ UNCHANGED <<config, cycle, data, tokens, i, token_data, notifier_calls, posted,
                   history, error, arg, resp, ret, issued>>

SpecClassify == InitClassify /\ [][CallClassify]_vars

-----------------------------------------------------------------------------
(* The verification adapters called on their own, over a grid of inputs *)

VerifyConfigs ==
    { [DefaultConfig EXCEPT !.api_endpoints = [pocket_universe |-> u, rugcheck |-> r]] :
        u \in {<<>>, S_pocket}, r \in {<<>>, S_rugcheck} }

VerifyTokens ==
    { [tFoo EXCEPT !.id = d, !.volume = v, !.contract = c] :
        d \in { Absent, PyStr(<<"0","x","1">>) },
        v \in { Absent, PyNone, PyNum(0), PyNum(-5), PyNum(10),
                PyStr(<<"1","0">>), PyStr(<<"n","a">>) },
        c \in { Absent, PyNone, PyStr(<<>>), PyStr(<<"0","x","a","b","c">>) } }

InitVerify ==
    /\ config \in VerifyConfigs
    /\ arg \in VerifyTokens
    /\ pc = "call"
    /\ InitCall

CallVerifyVolume ==
    /\ pc = "call"
    /\ LET reqs == volume_requests(config, arg)
       IN  \E r \in (IF reqs = <<>> THEN {NoResponse} ELSE VolumeResponses) :
             /\ resp' = r
             /\ ret' = verify_volume(config, arg, r)
             /\ issued' = reqs
    /\ called' = "verify_volume"
    /\ pc' = "returned"
    /\ UNCHANGED <<config, cycle, data, tokens, i, token_data, coin_events,
                   notifier_calls, posted, history, error, arg, events>>

CallVerifyRugcheck ==
    /\ pc = "call"
    /\ LET reqs == rugcheck_requests(config, arg)
       IN  \E r \in (IF reqs = <<>> THEN {NoResponse} ELSE RugcheckResponses) :
             /\ resp' = r
             /\ ret' = verify_rugcheck(config, arg, r)
             /\ issued' = reqs
    /\ called' = "verify_rugcheck"
    /\ pc' = "returned"
    /\ UNCHANGED <<config, cycle, data, tokens, i, token_data, coin_events,
                   notifier_calls, posted, history, error, arg, events>>

NextVerify == CallVerifyVolume \/ CallVerifyRugcheck

SpecVerify == InitVerify /\ [][NextVerify]_vars

-----------------------------------------------------------------------------
(* Reading the history *)

IsSnapshot(e) == e.kind = "snapshot"
IsEvent(e) == e.kind = "event"
IsNotify(e) == e.kind = "notify"
IsSkip(e) == e.kind = "skip"

SameOrigin(e, f) == e.cycle = f.cycle /\ e.idx = f.idx
OriginLeq(e, f) == e.cycle < f.cycle \/ (e.cycle = f.cycle /\ e.idx <= f.idx)

SnapshotRows == LET sel == SelectSeq(history, IsSnapshot) IN [k \in 1..Len(sel) |-> sel[k].row]
EventRows == LET sel == SelectSeq(history, IsEvent) IN [k \in 1..Len(sel) |-> sel[k].row]
NotifyMessages == LET sel == SelectSeq(history, IsNotify) IN [k \in 1..Len(sel) |-> sel[k].message]

\* The tables and the notifier hold exactly what the history says was written.
StoreMatchesHistory ==
    /\ token_data = SnapshotRows
    /\ coin_events = EventRows
    /\ notifier_calls = NotifyMessages

IsPrefix(s, t) == Len(s) <= Len(t) /\ SubSeq(t, 1, Len(s)) = s

EndpointSet(url) == url # <<>>

-----------------------------------------------------------------------------
(* C1 *)

\* C1: an error raised while one token is processed does not end the run:
\* the later tokens are still processed and run reaches the sleep and the next
\* fetch. (The code has no handler around a loop iteration, so the run ends.)
C1_TokenErrorDoesNotAbort ==
    (error # NoError /\ error.scope = "token") => pc # "crashed"

-----------------------------------------------------------------------------
(* C2 *)

\* The three filter reasons, as the claim words them.
ClaimCoinBlacklisted(cfg, token) ==
    /\ token.symbol.t = "str"
    /\ \E k \in 1..Len(cfg.coin_blacklist) :
          str_upper(cfg.coin_blacklist[k]) = str_upper(token.symbol.s)
ClaimDevBlacklisted(cfg, token) ==
    /\ token.developer.t = "str"
    /\ \E k \in 1..Len(cfg.dev_blacklist) :
          str_upper(cfg.dev_blacklist[k]) = str_upper(token.developer.s)
ClaimBundled(token) == token.bundled = PyBool(TRUE)

\* C2: a token skipped for any of the five reasons leaves no snapshot row, no
\* event row and no notifier call, and is not examined again in the batch:
\* every blacklisted or bundled token that was examined has a skip line, a
\* false verify_volume / verify_rugcheck is followed at once by the skip line
\* of that token, and no other history entry shares the origin of a skip line.
C2_SkippedLeavesNoTrace ==
    /\ StoreMatchesHistory
    /\ \A k \in 1..Len(history) :
          ( \/ ClaimCoinBlacklisted(config, history[k].token)
            \/ ClaimDevBlacklisted(config, history[k].token)
            \/ ClaimBundled(history[k].token) )
          => IsSkip(history[k])
    /\ (called \in {"verify_volume", "verify_rugcheck"} /\ ~Truthy(ret))
          => /\ pc = "loop"
             /\ history # <<>>
             /\ IsSkip(history[Len(history)])
             /\ history[Len(history)].token = arg
             /\ history[Len(history)].cycle = cycle
             /\ history[Len(history)].idx = i - 1
    /\ \A k \in 1..Len(history) :
          IsSkip(history[k])
          => \A m \in 1..Len(history) : m # k => ~SameOrigin(history[k], history[m])

\* C2 witness: a pumped, bundled token, a blacklisted token, a token whose
\* volume check was false and one whose contract check was false have all been
\* skipped, and the store is still empty.
C2_Witness ==
    /\ \E k \in 1..Len(history) :
          IsSkip(history[k]) /\ history[k].reason = "bundled"
          /\ trade_signals(classify_coin(config, history[k].token)) # <<>>
    /\ \E k \in 1..Len(history) : IsSkip(history[k]) /\ history[k].reason = "coin_blacklist"
    /\ \E k \in 1..Len(history) : IsSkip(history[k]) /\ history[k].reason = "volume"
    /\ called = "verify_rugcheck" /\ ~Truthy(ret)
    /\ token_data = <<>> /\ coin_events = <<>> /\ notifier_calls = <<>>

-----------------------------------------------------------------------------
(* C3 *)

\* The token examined last passed the filters and both verification checks.
PassedAll == called = "verify_rugcheck" /\ Truthy(ret)

\* C3: every token that passed the filters and both checks gets exactly one
\* snapshot row, with or without events, and nothing else adds a row; rows
\* are never merged with earlier rows of the same token.
C3_OneSnapshotPerAcceptedToken ==
    [][ /\ PassedAll => token_data' = Append(token_data, snapshot_row(arg))
        /\ ~PassedAll => token_data' = token_data ]_vars

\* C3 witness: the same unchanged token was accepted in two cycles and has two
\* equal rows, and classification found no event for it.
C3_Witness ==
    /\ Len(token_data) = 2
    /\ token_data[1] = token_data[2]
    /\ coin_events = <<>>
    /\ cycle = 1

-----------------------------------------------------------------------------
(* C4 *)

EventsOf(e) == SelectSeq(history, LAMBDA f : IsEvent(f) /\ SameOrigin(e, f))
NotifiesOf(e) == SelectSeq(history, LAMBDA f : IsNotify(f) /\ SameOrigin(e, f))
ClaimSignalKind(kind) == kind = "pumped" \/ kind = "tier-1"

\* C4: a processed token causes exactly one notifier call when its events
\* contain a pumped or tier-1 event and none otherwise; the message lists
\* exactly the pumped / tier-1 events of the token, kind and detail, in order.
C4_NotifyOncePerSignalToken ==
    /\ StoreMatchesHistory
    /\ \A k \in 1..Len(history) :
          IsSnapshot(history[k]) =>
            LET evs == EventsOf(history[k])
                nots == NotifiesOf(history[k])
                sig == SelectSeq(evs, LAMBDA f : ClaimSignalKind(f.row.event_type))
            IN  /\ Len(nots) = (IF sig # <<>> THEN 1 ELSE 0)
                /\ \A n \in 1..Len(nots) :
                      nots[n].message.lines =
                        [m \in 1..Len(sig) |-> <<sig[m].row.event_type, sig[m].row.details>>]
    /\ \A k \in 1..Len(history) :
          IsNotify(history[k]) => \E m \in 1..Len(history) :
              IsSnapshot(history[m]) /\ SameOrigin(history[k], history[m])

\* C4 witness: one token produced rugged, tier-1 and listed_on_cex and its one
\* message has the tier-1 line only; a rugged-only token produced no call.
C4_Witness ==
    /\ Len(notifier_calls) = 1
    /\ Len(notifier_calls[1].lines) = 1
    /\ notifier_calls[1].lines[1][1] = "tier-1"
    /\ \E k \in 1..Len(coin_events) : coin_events[k].event_type = "listed_on_cex"
    /\ Len(SelectSeq(coin_events, LAMBDA r : r.event_type = "rugged")) = 2

-----------------------------------------------------------------------------
(* C5 *)

S_UNKNOWN == <<"U","N","K","N","O","W","N">>

\* The effective symbol as the claim resolves it.
ClaimEffectiveSymbol(token) ==
    IF token.symbol.t = "str" /\ token.symbol.s # <<>> THEN str_upper(token.symbol.s)
    ELSE IF token.id.t = "str" /\ token.id.s # <<>> THEN str_upper(token.id.s)
    ELSE S_UNKNOWN

\* C5: the coin-blacklist test uses the declared symbol, else the identifier,
\* else "UNKNOWN": a token whose effective symbol is blacklisted is skipped
\* and nothing is persisted for it. (The code tests "" for a token without a
\* symbol, so such a token is accepted.)
C5_BlacklistFallsBackToIdentifier ==
    \A k \in 1..Len(history) :
        ClaimEffectiveSymbol(history[k].token) \in coin_blacklist_set(config)
        => IsSkip(history[k])

-----------------------------------------------------------------------------
(* C6 *)

\* The batch as the claim reads the fetched value.
ClaimBatch(d) ==
    IF d.t = "list" THEN d.items
    ELSE IF d.t = "dict" /\ d.tokens.t = "list" THEN d.tokens.items
    ELSE <<>>

\* C6: whatever the shape of a fetched value, the cycle does not fail and
\* the batch is the bare sequence, or the sequence under "tokens", or empty.
\* (The code calls data.get on a bare sequence, which raises.)
C6_BatchTotalOverShape ==
    /\ (error # NoError /\ error.scope = "batch") => pc # "crashed"
    /\ pc \in {"loop", "verify_volume", "verify_rugcheck", "accept"}
          => tokens = ClaimBatch(data)

-----------------------------------------------------------------------------
(* C7 *)

EventOrder == <<"rugged", "pumped", "tier-1", "listed_on_cex">>

\* C7: classify_coin returns, in the order rugged, pumped, tier-1,
\* listed_on_cex, exactly the kinds whose condition holds (strict comparisons
\* on present values, upper-cased symbol in the fixed set), and records one
\* coin_events row per returned event.
C7_ClassifyTable ==
    called = "classify_coin" =>
      LET p == safe_float(Get(arg, "price_change"))
          l == safe_float(Get(arg, "liquidity"))
          y == Get(arg, "symbol")
          Holds(kind) ==
              CASE kind = "rugged" -> p # PyNone /\ p.n < config.filters.rug_threshold
                [] kind = "pumped" -> p # PyNone /\ p.n > config.filters.pump_threshold
                [] kind = "tier-1" -> l # PyNone /\ l.n > config.filters.tier1_liquidity
                [] OTHER -> y.t = "str" /\ str_upper(y.s) \in
                              { <<"B","T","C">>, <<"E","T","H">>, <<"B","N","B">>,
                                <<"U","S","D","T">>, <<"U","S","D","C">> }
      IN  /\ [k \in 1..Len(events) |-> events[k][1]] = SelectSeq(EventOrder, Holds)
          /\ Len(coin_events) = Len(events)
          /\ \A k \in 1..Len(events) :
                /\ coin_events[k].event_type = events[k][1]
                /\ coin_events[k].details = events[k][2]
                /\ coin_events[k].token_id = Get(arg, "id")

\* C7 witness: price change exactly on rug_threshold and liquidity passed as
\* text above tier1_liquidity, symbol "Usdt": tier-1 and listed_on_cex only.
C7_Witness ==
    /\ called = "classify_coin"
    /\ arg.price_change = PyNum(config.filters.rug_threshold)
    /\ arg.liquidity.t = "str"
    /\ Len(events) = 2
    /\ events[1][1] = "tier-1"
    /\ events[2][1] = "listed_on_cex"
    /\ Len(coin_events) = 2

-----------------------------------------------------------------------------
(* C8 *)

\* C8: verify_rugcheck returns a boolean: false without a contract address,
\* true with a contract and no endpoint, and with both true exactly when the
\* response is an object whose status is the string "Good"; every failed or
\* malformed response gives false and nothing is raised.
C8_RugcheckTable ==
    called = "verify_rugcheck" =>
      LET present == arg.contract.t = "str" /\ arg.contract.s # <<>>
          good == resp.t = "json" /\ resp.body.status = PyStr(<<"G","o","o","d">>)
      IN  /\ ret = PyBool(present /\ (EndpointSet(config.api_endpoints.rugcheck) => good))
          /\ pc # "crashed"
          /\ error = NoError

\* C8 witness: contract and endpoint present, the service answered "good".
C8_Witness ==
    /\ called = "verify_rugcheck"
    /\ issued # <<>>
    /\ resp = Json([status |-> PyStr(<<"g","o","o","d">>)])
    /\ ret = PyBool(FALSE)

-----------------------------------------------------------------------------
(* C9 *)

\* C9 as claimed: verify_volume issues a request only if an endpoint is
\* configured and the token carries a resolvable identifier.
C9_RequestOnlyWithIdentifier ==
    (called = "verify_volume" /\ issued # <<>>)
    => /\ EndpointSet(config.api_endpoints.pocket_universe)
       /\ arg.id.t = "str" /\ arg.id.s # <<>>

\* C9 as amended: verify_volume issues one request exactly when an endpoint
\* is configured, whether or not the token has an identifier, and returns the
\* response's authentic field, false when it is absent or the call failed;
\* without an endpoint it issues none and returns whether the volume is present
\* and strictly positive. A false result skips the token before any row is
\* written or classification runs.
C9_VolumeCheck ==
    called = "verify_volume" =>
      LET volume == safe_float(Get(arg, "volume"))
      IN  /\ (issued # <<>>) <=> EndpointSet(config.api_endpoints.pocket_universe)
          /\ Len(issued) <= 1
          /\ EndpointSet(config.api_endpoints.pocket_universe) =>
                ret = (IF resp.t = "json" /\ resp.body.authentic # Absent
                       THEN resp.body.authentic ELSE PyBool(FALSE))
          /\ ~EndpointSet(config.api_endpoints.pocket_universe) =>
                ret = PyBool(volume # PyNone /\ volume.n > 0)
          /\ ~Truthy(ret) =>
                /\ pc = "loop"
                /\ history # <<>>
                /\ history[Len(history)] =
                      [kind |-> "skip", cycle |-> cycle, idx |-> i - 1, token |-> arg,
                       reason |-> "volume"]
                /\ \A k \in 1..(Len(history) - 1) :
                      ~SameOrigin(history[k], history[Len(history)])
                /\ StoreMatchesHistory
                /\ events = <<>>

\* C9 witness: fallback mode, a token with volume 0 has just been skipped
\* after an earlier token was accepted.
C9_Witness ==
    /\ called = "verify_volume"
    /\ ~EndpointSet(config.api_endpoints.pocket_universe)
    /\ safe_float(Get(arg, "volume")) = PyNum(0)
    /\ ret = PyBool(FALSE)
    /\ pc = "loop"
    /\ Len(token_data) >= 1

-----------------------------------------------------------------------------
(* C10 *)

Rank(kind) == CHOOSE n \in 1..Len(EventOrder) : EventOrder[n] = kind

HistoryOrdered ==
    /\ StoreMatchesHistory
    /\ \A j, k \in 1..Len(history) : j < k => OriginLeq(history[j], history[k])
    /\ \A k \in 1..Len(history) :
          IsEvent(history[k]) =>
            \E j \in 1..(k - 1) : IsSnapshot(history[j]) /\ SameOrigin(history[j], history[k])
    /\ \A j, k \in 1..Len(history) :
          (IsNotify(history[j]) /\ SameOrigin(history[j], history[k]) /\ j # k)
          => (k < j /\ ~IsNotify(history[k]))
    /\ \A j, k \in 1..Len(history) :
          (j < k /\ IsEvent(history[j]) /\ IsEvent(history[k])
             /\ SameOrigin(history[j], history[k]))
          => Rank(history[j].row.event_type) < Rank(history[k].row.event_type)

\* C10: within a pass the snapshot row of a token precedes its event rows,
\* which are in classifier order and precede its notifier call; the effects of
\* an earlier token precede those of a later one; and no step removes or
\* changes a row already stored.
C10_EffectOrder ==
    /\ []HistoryOrdered
    /\ [][ /\ IsPrefix(token_data, token_data')
           /\ IsPrefix(coin_events, coin_events')
           /\ IsPrefix(notifier_calls, notifier_calls')
           /\ IsPrefix(history, history') ]_vars

\* C10 witness: a token with snapshot, two events and a notifier call follows
\* an earlier token of the same batch that also left a snapshot and an event.
C10_Witness ==
    /\ Len(history) = 6
    /\ IsSnapshot(history[1]) /\ IsEvent(history[2])
    /\ IsSnapshot(history[3]) /\ IsEvent(history[4]) /\ IsEvent(history[5])
    /\ IsNotify(history[6])
    /\ history[1].cycle = history[6].cycle
    /\ history[1].idx < history[3].idx

====
